---- MODULE Spec2Model ----
(***************************************************************************)
(* Model of src/main.py: the InMemoryCache store (get/set under one        *)
(* asyncio.Lock, lazy expiry against the wall clock), make_key, the        *)
(* provider call with normalize, and the classify handler that ties them   *)
(* together.  Tasks are the concurrently running coroutines; each step of  *)
(* a task is one action.  Values are Python dicts, i.e. mutable objects    *)
(* held by reference: the store keeps an object id and `heap` keeps the    *)
(* contents of every object.                                               *)
(***************************************************************************)
EXTENDS Integers, Sequences, FiniteSets, TLC

\* ---------------------------------------------------------------- bounds
NTasks == 2          \* concurrently running coroutines
MaxTime == 2         \* clock readings are 0..MaxTime
MaxObj == 2          \* value objects ever allocated

\* ------------------------------------------------------- program constants
CACHE_TTL == 1       \* seconds (scaled down from the default 3600)

Tasks == 1..NTasks
NoTask == 0
None == 0            \* Python None, also "no object"
Objs == 1..MaxObj
NoRec == [absent |-> TRUE]

Texts == {"good", "hello"}
TTLs == {-1, 0, CACHE_TTL, 2}
Providers == {"mock", "hf"}

\* hashlib.sha256(text.encode()).hexdigest() on the texts of the model
sha256hex(text) ==
    CASE text = "good"  -> "770e607624d689265ca6c44884d0807d9b054d23c473c106c72be9de08b7376c"
      [] text = "hello" -> "2cf24dba5fb0a30e26e83b2ac5b9e29e1b161e5c1fa7425e73043362938b9824"
      [] text = "Hello" -> "185f8db32271fe25f561a6fc938b2e264306ec304eda518007d1764826381969"
      [] text = "bad"   -> "2f05d4b689d270cafb02285f35f44866f7dc8a2d368a3f9d1124373eeab31fb1"
      [] text = ""      -> "e3b0c44298fc1c149afbf4c8996fb92427ae41e4649b934ca495991b7852b855"

\* "classify:" + digest
make_keyNoText(text) == "classify:" \o sha256hex("")
make_keyCaseFolded(text) ==
    "classify:" \o sha256hex(IF text = "Hello" THEN "hello" ELSE text)
make_key(text) == "classify:" \o sha256hex(text)

Keys == {make_key(x) : x \in Texts}

\* scores are kept in hundredths (0.95 -> 95)
Lbl(l, s) == [label |-> l, score |-> s]

\* call_mock: the label list for a text (substring tests on text.lower());
\* of the model's texts only "good" contains one of the trigger words
call_mock(text) ==
    IF text = "good" THEN <<Lbl("POSITIVE", 95)>>
    ELSE IF text = "bad" THEN <<Lbl("NEGATIVE", 90)>>
    ELSE <<Lbl("NEUTRAL", 60)>>

\* Raw provider replies.  kind "list" is a JSON list of items, "nested" a
\* list whose first element is a list, "other" any non-list JSON value.
\* An item is either a dict with label and score (ok) or anything else.
GoodItem == [ok |-> TRUE, label |-> "POSITIVE", score |-> 95]
BadItem == [ok |-> FALSE, label |-> "", score |-> 0]
RawList(items) == [kind |-> "list", items |-> items]
RawNested(items) == [kind |-> "nested", items |-> items]
RawOther == [kind |-> "other", items |-> <<>>]
MockRaw(text) ==
    RawList([i \in 1..Len(call_mock(text)) |->
        [ok |-> TRUE, label |-> call_mock(text)[i].label,
         score |-> call_mock(text)[i].score]])
HfRaws == {RawNested(<<GoodItem, BadItem>>), RawList(<<BadItem>>),
           RawList(<<>>), RawOther}
HfErrors == {"timeout", "http_error", "error"}

RECURSIVE KeepValid(_)
KeepValid(items) ==
    IF items = <<>> THEN <<>>
    ELSE IF Head(items).ok
         THEN <<Lbl(Head(items).label, Head(items).score)>> \o KeepValid(Tail(items))
         ELSE KeepValid(Tail(items))

normalizeNestedOnly(raw) ==
    IF raw.kind = "nested" THEN KeepValid(raw.items) ELSE <<>>
normalize(raw) ==
    IF raw.kind \in {"list", "nested"} THEN KeepValid(raw.items) ELSE <<>>

\* the result dict built by classify, and the values direct callers store
Result(labels, prov) == [labels |-> labels, provider |-> prov]
Contents == {Result(<<Lbl("POSITIVE", 95)>>, "direct")}
Mutated(c) == Result(c.labels \o <<Lbl("EDITED", 1)>>, c.provider)

\* ------------------------------------------------------ the cache, as data
\* rec["expires_at"] < datetime.utcnow()
IsExpiredInclusive(rec, tnow) == rec.expires_at <= tnow
IsExpired(rec, tnow) == rec.expires_at < tnow

\* datetime.utcnow() + timedelta(seconds=ttl)
ExpiresAtNoTtl(tnow, t) == tnow
ExpiresAtAbs(tnow, t) == tnow + (IF t < 0 THEN -t ELSE t)
ExpiresAt(tnow, t) == tnow + t

Record(v, e) == [absent |-> FALSE, value |-> v, expires_at |-> e]

\* self._store[key] = {...}
StoreSetKeepExpiry(s, k, r) ==
    IF s[k] = NoRec THEN [s EXCEPT ![k] = r]
    ELSE [s EXCEPT ![k] = Record(r.value, s[k].expires_at)]
StoreSetDefault(s, k, r) == IF s[k] = NoRec THEN [s EXCEPT ![k] = r] ELSE s
StoreSet(s, k, r) == [s EXCEPT ![k] = r]

\* del self._store[key]
StoreDelSweep(s, k) == [j \in Keys |-> NoRec]
StoreDelNoop(s, k) == s
StoreDel(s, k) == [s EXCEPT ![k] = NoRec]

\* asyncio.Lock: acquire proceeds only when nobody holds the lock
LockFreeAlways(l) == TRUE
LockFree(l) == l = NoTask

\* leaving `async with self._lock`
LockKept(l) == l
LockReleased(l) == NoTask

NumKeys(s) == Cardinality({k \in Keys : s[k] # NoRec})

\* the sequential cache: what get and set do to a mapping in one step
SeqGetRet(s, k, tnow) ==
    IF s[k] = NoRec \/ s[k].expires_at < tnow THEN None ELSE s[k].value
SeqGetStore(s, k, tnow) ==
    IF s[k] # NoRec /\ s[k].expires_at < tnow THEN [s EXCEPT ![k] = NoRec] ELSE s
SeqSetStore(s, k, v, tnow, t) == [s EXCEPT ![k] = Record(v, tnow + t)]

\* ------------------------------------------------------------------ state
VARIABLES
    store,      \* cache._store: key -> NoRec or Record(object id, expires_at)
    lock,       \* cache._lock: the task holding it, or NoTask
    now,        \* the reading datetime.utcnow() gives at this moment
    heap,       \* contents of the value objects allocated so far
    provider,   \* PROVIDER, fixed at start-up
    pc,         \* where each task is
    op,         \* what each task is running: "get", "set", "classify" or ""
    text,       \* req.text of a classify task
    key,        \* the key argument / local
    val,        \* the value argument of set / the result dict of classify
    ttl,        \* the ttl argument of set
    rec,        \* the local rec of get
    ret,        \* what get returned (None or an object id)
    raised,     \* tasks in which a store operation raised
    resp,       \* the response of a classify task
    lastSet,    \* history: the last write of each key (value, time + ttl, ttl > 0)
    lapsed,     \* history: the clock has read >= expiry since that write
    lastAcq,    \* history: value of the set that last took the lock, per key
    raced,      \* history: the set of k started last overlapped another set of k
    lin,        \* history: the mapping a sequential cache would hold
    gone,       \* history: a get found k expired and no set of k came since
    calls       \* how many times each classify task has invoked the provider

vars == <<store, lock, now, heap, provider, pc, op, text, key, val, ttl, rec,
          ret, raised, resp, lastSet, lapsed, lastAcq, raced, lin, gone, calls>>

locals == <<op, text, key, val, ttl, rec, ret, resp, calls>>
ghosts == <<lastSet, lapsed, lastAcq, raced, lin, gone>>

NoSet == [never |-> TRUE]
NoPrev == [none |-> TRUE]
NoResp == [status |-> 0]
OkResp(labels, cached, prov) ==
    [status |-> 200, labels |-> labels, from_cache |-> cached, provider |-> prov]
ErrResp(code) == [status |-> code]

InCS == {"get_lookup", "get_check", "get_exit", "set_write", "set_exit"}

Init ==
    /\ store = [k \in Keys |-> NoRec]
    /\ lock = NoTask
    /\ now = 0
    /\ heap = <<>>
    /\ provider \in Providers
    /\ pc = [t \in Tasks |-> "idle"]
    /\ op = [t \in Tasks |-> ""]
    /\ text = [t \in Tasks |-> ""]
    /\ key = [t \in Tasks |-> ""]
    /\ val = [t \in Tasks |-> None]
    /\ ttl = [t \in Tasks |-> 0]
    /\ rec = [t \in Tasks |-> NoRec]
    /\ ret = [t \in Tasks |-> None]
    /\ raised = {}
    /\ resp = [t \in Tasks |-> NoResp]
    /\ lastSet = [k \in Keys |-> NoSet]
    /\ lapsed = [k \in Keys |-> FALSE]
    /\ lastAcq = [k \in Keys |-> None]
    /\ raced = [k \in Keys |-> FALSE]
    /\ lin = [k \in Keys |-> NoRec]
    /\ gone = [k \in Keys |-> FALSE]
    /\ calls = [t \in Tasks |-> 0]

\* ------------------------------------------------------------- the clock
LapsedAt(tnow) ==
    [k \in Keys |-> lapsed[k] \/
        (lastSet[k] # NoSet /\ tnow >= lastSet[k].due)]

\* time passes
Tick ==
    /\ now < MaxTime
    /\ now' = now + 1
    /\ lapsed' = LapsedAt(now + 1)
    /\ UNCHANGED <<store, lock, heap, provider, pc, locals, raised,
                   lastSet, lastAcq, raced, lin, gone>>

\* utcnow() is the wall clock: an adjustment can set it back
ClockBack ==
    /\ now > 0
    /\ now' = now - 1
    /\ lapsed' = LapsedAt(now - 1)
    /\ UNCHANGED <<store, lock, heap, provider, pc, locals, raised,
                   lastSet, lastAcq, raced, lin, gone>>

\* ------------------------------------------------------- callers of the cache
\* a coroutine calls cache.get(k)
StartGet(t, k) ==
    /\ pc[t] = "idle"
    /\ pc' = [pc EXCEPT ![t] = "get_acq"]
    /\ op' = [op EXCEPT ![t] = "get"]
    /\ key' = [key EXCEPT ![t] = k]
    /\ UNCHANGED <<store, lock, now, heap, provider, text, val, ttl, rec, ret,
                   raised, resp, calls, ghosts>>

\* some task is inside a call of set on key k
SetUnderWay(k) ==
    \E u \in Tasks : key[u] = k /\ pc[u] \in {"set_acq", "set_write", "set_exit"}

\* a coroutine builds a value dict and calls cache.set(k, value, ttl)
StartSet(t, k, c, tt) ==
    /\ pc[t] = "idle"
    /\ Len(heap) < MaxObj
    /\ heap' = Append(heap, c)
    /\ pc' = [pc EXCEPT ![t] = "set_acq"]
    /\ op' = [op EXCEPT ![t] = "set"]
    /\ key' = [key EXCEPT ![t] = k]
    /\ val' = [val EXCEPT ![t] = Len(heap) + 1]
    /\ ttl' = [ttl EXCEPT ![t] = tt]
    /\ raced' = [raced EXCEPT ![k] = SetUnderWay(k)]
    /\ UNCHANGED <<store, lock, now, provider, text, rec, ret, raised, resp,
                   calls, lastSet, lapsed, lastAcq, lin, gone>>

\* classify: key = make_key(req.text); cached = await cache.get(key)
StartClassify(t, x) ==
    /\ pc[t] = "idle"
    /\ pc' = [pc EXCEPT ![t] = "get_acq"]
    /\ op' = [op EXCEPT ![t] = "classify"]
    /\ text' = [text EXCEPT ![t] = x]
    /\ key' = [key EXCEPT ![t] = make_key(x)]
    /\ UNCHANGED <<store, lock, now, heap, provider, val, ttl, rec, ret,
                   raised, resp, calls, ghosts>>

\* key = make_key(req.text), on its own: the function applied to a text
DeriveKey(t, x) ==
    /\ pc[t] = "idle"
    /\ pc' = [pc EXCEPT ![t] = "keyed"]
    /\ op' = [op EXCEPT ![t] = "make_key"]
    /\ text' = [text EXCEPT ![t] = x]
    /\ key' = [key EXCEPT ![t] = make_key(x)]
    /\ UNCHANGED <<store, lock, now, heap, provider, val, ttl, rec, ret,
                   raised, resp, calls, ghosts>>

\* the caller drops the key it derived
DropKey(t) ==
    /\ pc[t] = "keyed"
    /\ pc' = [pc EXCEPT ![t] = "idle"]
    /\ op' = [op EXCEPT ![t] = ""]
    /\ text' = [text EXCEPT ![t] = ""]
    /\ key' = [key EXCEPT ![t] = ""]
    /\ UNCHANGED <<store, lock, now, heap, provider, val, ttl, rec, ret,
                   raised, resp, calls, ghosts>>

\* ------------------------------------------------------------ InMemoryCache
\* async with self._lock (entry), in get and in set
Acquire(t) ==
    /\ pc[t] \in {"get_acq", "set_acq"}
    /\ LockFree(lock)
    /\ lock' = t
    /\ pc' = [pc EXCEPT ![t] = IF pc[t] = "get_acq" THEN "get_lookup" ELSE "set_write"]
    /\ lastAcq' = IF pc[t] = "set_acq" THEN [lastAcq EXCEPT ![key[t]] = val[t]]
                  ELSE lastAcq
    /\ UNCHANGED <<store, now, heap, provider, locals, raised, lastSet, lapsed,
                   raced, lin, gone>>

\* rec = self._store.get(key); if not rec: return None
GetLookup(t) ==
    /\ pc[t] = "get_lookup"
    /\ rec' = [rec EXCEPT ![t] = store[key[t]]]
    /\ IF store[key[t]] = NoRec
       THEN /\ pc' = [pc EXCEPT ![t] = "get_exit"]
            /\ ret' = [ret EXCEPT ![t] = None]
       ELSE /\ pc' = [pc EXCEPT ![t] = "get_check"]
            /\ UNCHANGED ret
    /\ lin' = IF store[key[t]] = NoRec THEN SeqGetStore(lin, key[t], now) ELSE lin
    /\ UNCHANGED <<store, lock, now, heap, provider, op, text, key, val, ttl,
                   raised, resp, calls, lastSet, lapsed, lastAcq, raced, gone>>

\* if rec["expires_at"] < utcnow(): del self._store[key]; return None
\* return rec["value"]
GetCheck(t) ==
    /\ pc[t] = "get_check"
    /\ pc' = [pc EXCEPT ![t] = "get_exit"]
    /\ IF IsExpired(rec[t], now)
       THEN IF store[key[t]] = NoRec
            THEN \* del of a missing key: KeyError
                 /\ raised' = raised \cup {t}
                 /\ UNCHANGED <<store, ret>>
            ELSE /\ store' = StoreDel(store, key[t])
                 /\ ret' = [ret EXCEPT ![t] = None]
                 /\ UNCHANGED raised
       ELSE /\ ret' = [ret EXCEPT ![t] = rec[t].value]
            /\ UNCHANGED <<store, raised>>
    /\ lin' = SeqGetStore(lin, key[t], now)
    /\ gone' = IF IsExpired(rec[t], now) /\ store[key[t]] # NoRec
               THEN [gone EXCEPT ![key[t]] = TRUE] ELSE gone
    /\ UNCHANGED <<lock, now, heap, provider, op, text, key, val, ttl, rec,
                   resp, calls, lastSet, lapsed, lastAcq, raced>>

\* self._store[key] = {"value": value, "expires_at": utcnow() + ttl}
SetWrite(t) ==
    /\ pc[t] = "set_write"
    /\ pc' = [pc EXCEPT ![t] = "set_exit"]
    /\ store' = StoreSet(store, key[t], Record(val[t], ExpiresAt(now, ttl[t])))
    /\ lastSet' = [lastSet EXCEPT ![key[t]] =
                     [never |-> FALSE, obj |-> val[t], due |-> now + ttl[t],
                      positive |-> ttl[t] > 0,
                      content |-> heap[val[t]], text |-> text[t],
                      prev |-> IF store[key[t]] = NoRec THEN NoPrev
                               ELSE [none |-> FALSE,
                                     value |-> store[key[t]].value,
                                     longer |-> store[key[t]].expires_at > now + ttl[t],
                                     shorter |-> store[key[t]].expires_at < now + ttl[t]]]]
    /\ lapsed' = [lapsed EXCEPT ![key[t]] = (ttl[t] <= 0)]
    /\ lin' = SeqSetStore(lin, key[t], val[t], now, ttl[t])
    /\ gone' = [gone EXCEPT ![key[t]] = FALSE]
    /\ UNCHANGED <<lock, now, heap, provider, locals, raised, lastAcq, raced>>

\* the locals of a task whose coroutine has ended
Ended(t) ==
    /\ op' = [op EXCEPT ![t] = ""]
    /\ text' = [text EXCEPT ![t] = ""]
    /\ key' = [key EXCEPT ![t] = ""]
    /\ val' = [val EXCEPT ![t] = None]
    /\ ttl' = [ttl EXCEPT ![t] = 0]
    /\ rec' = [rec EXCEPT ![t] = NoRec]
    /\ ret' = [ret EXCEPT ![t] = None]
    /\ resp' = [resp EXCEPT ![t] = NoResp]
    /\ calls' = [calls EXCEPT ![t] = 0]
    /\ raised' = raised \ {t}

\* async with self._lock (exit), on every path out of get and set; a direct
\* caller's coroutine ends with the return, classify goes on
Release(t) ==
    /\ pc[t] \in {"get_exit", "set_exit"}
    /\ lock' = LockReleased(lock)
    /\ IF op[t] = "classify"
       THEN /\ pc' = [pc EXCEPT ![t] = IF pc[t] = "get_exit" THEN "get_ret" ELSE "set_ret"]
            /\ UNCHANGED <<locals, raised>>
       ELSE /\ pc' = [pc EXCEPT ![t] = "idle"]
            /\ Ended(t)
    /\ UNCHANGED <<store, now, heap, provider, ghosts>>

\* ------------------------------------------------------------------ classify
\* if cached: a dict with entries is true, None is not
TruthyNever(r) == FALSE
Truthy(r) == r # None

\* where a request goes after a miss: straight to the provider call; classify
\* does not look at the requests already in flight for its key
AfterMissCoalesce(t) ==
    IF \E u \in Tasks \ {t} : pc[u] = "cl_call" /\ key[u] = key[t]
    THEN "get_acq" ELSE "cl_call"
AfterMiss(t) == "cl_call"

\* if cached: return ClassifyResponse(labels=cached["labels"], from_cache=True,
\* meta={"provider": cached["provider"]}); otherwise go on to the provider
ClassifyAfterGet(t) ==
    /\ pc[t] = "get_ret"
    /\ op[t] = "classify"
    /\ IF t \in raised
       THEN /\ resp' = [resp EXCEPT ![t] = ErrResp(500)]
            /\ pc' = [pc EXCEPT ![t] = "done"]
            /\ UNCHANGED calls
       ELSE IF Truthy(ret[t])
       THEN /\ resp' = [resp EXCEPT ![t] =
                          OkResp(heap[ret[t]].labels, TRUE, heap[ret[t]].provider)]
            /\ pc' = [pc EXCEPT ![t] = "done"]
            /\ UNCHANGED calls
       ELSE /\ pc' = [pc EXCEPT ![t] = AfterMiss(t)]
            /\ calls' = [calls EXCEPT ![t] =
                            IF AfterMiss(t) = "cl_call" THEN calls[t] + 1 ELSE calls[t]]
            /\ UNCHANGED resp
    /\ UNCHANGED <<store, lock, now, heap, provider, op, text, key, val, ttl,
                   rec, ret, raised, ghosts>>

\* the provider call raised: HTTPException 502 (timeout, HTTP error) or 500
ProviderFails(t, e) ==
    /\ pc[t] = "cl_call"
    /\ provider = "hf"
    /\ resp' = [resp EXCEPT ![t] = ErrResp(IF e = "error" THEN 500 ELSE 502)]
    /\ pc' = [pc EXCEPT ![t] = "done"]
    /\ UNCHANGED <<store, lock, now, heap, provider, op, text, key, val, ttl,
                   rec, ret, raised, calls, ghosts>>

\* if not labels: an empty list is false
NoLabelsNever(labels) == FALSE
NoLabels(labels) == labels = <<>>

\* raw = await call_provider(text); labels = normalize(raw);
\* no labels: 502; otherwise result = {"labels": labels, "provider": PROVIDER}
\* and await cache.set(key, result, ttl=CACHE_TTL)
ProviderReturns(t, raw) ==
    /\ pc[t] = "cl_call"
    /\ IF provider = "mock" THEN raw = MockRaw(text[t]) ELSE raw \in HfRaws
    /\ IF NoLabels(normalize(raw))
       THEN /\ resp' = [resp EXCEPT ![t] = ErrResp(502)]
            /\ pc' = [pc EXCEPT ![t] = "done"]
            /\ UNCHANGED <<heap, val, ttl>>
       ELSE /\ Len(heap) < MaxObj
            /\ heap' = Append(heap, Result(normalize(raw), provider))
            /\ val' = [val EXCEPT ![t] = Len(heap) + 1]
            /\ ttl' = [ttl EXCEPT ![t] = CACHE_TTL]
            /\ pc' = [pc EXCEPT ![t] = "set_acq"]
            /\ UNCHANGED resp
    /\ raced' = IF NoLabels(normalize(raw)) THEN raced
                ELSE [raced EXCEPT ![key[t]] = SetUnderWay(key[t])]
    /\ UNCHANGED <<store, lock, now, provider, op, text, key, rec, ret,
                   raised, calls, lastSet, lapsed, lastAcq, lin, gone>>

\* the dict assignment inside set raises (the store cannot take the record,
\* e.g. MemoryError); the exception leaves through the async with
SetFails(t) ==
    /\ pc[t] = "set_write"
    /\ pc' = [pc EXCEPT ![t] = "set_exit"]
    /\ raised' = raised \cup {t}
    /\ UNCHANGED <<store, lock, now, heap, provider, locals, ghosts>>

\* try: await cache.set(...) except Exception: logger.exception(...), then
\* the response is built from labels in either case
AfterSetPropagate(failed, labels, prov) ==
    IF failed THEN ErrResp(500) ELSE OkResp(labels, FALSE, prov)
AfterSet(failed, labels, prov) == OkResp(labels, FALSE, prov)

\* return ClassifyResponse(labels=labels, from_cache=False, ...)
ClassifyRespond(t) ==
    /\ pc[t] = "set_ret"
    /\ op[t] = "classify"
    /\ resp' = [resp EXCEPT ![t] =
                  AfterSet(t \in raised, heap[val[t]].labels, provider)]
    /\ pc' = [pc EXCEPT ![t] = "done"]
    /\ UNCHANGED <<store, lock, now, heap, provider, op, text, key, val, ttl,
                   rec, ret, raised, calls, ghosts>>

\* ------------------------------------------------------- after the operation
\* A direct caller keeps the dict it passed to set (and whoever got it from
\* get holds the same object).  Once the set call has returned, a holder
\* changes the dict in place.
Mutate(o) ==
    /\ o \in 1..Len(heap)
    /\ heap[o] \in Contents
    /\ \A t \in Tasks : val[t] # o
    /\ heap' = [heap EXCEPT ![o] = Mutated(heap[o])]
    /\ UNCHANGED <<store, lock, now, provider, pc, locals, raised, ghosts>>

\* the classify coroutine ends; the task slot is free for the next one
Finish(t) ==
    /\ pc[t] = "done"
    /\ pc' = [pc EXCEPT ![t] = "idle"]
    /\ Ended(t)
    /\ UNCHANGED <<store, lock, now, heap, provider, ghosts>>

\* one step of a cache operation that is under way
CacheStep(t) ==
    \/ GetLookup(t)
    \/ GetCheck(t)
    \/ SetWrite(t)
    \/ Release(t)

\* one step of a classify request outside the cache
ClassifyStep(t) ==
    \/ ClassifyAfterGet(t)
    \/ \E raw \in HfRaws \cup {MockRaw(x) : x \in Texts} : ProviderReturns(t, raw)
    \/ \E e \in HfErrors : ProviderFails(t, e)
    \/ ClassifyRespond(t)

\* one step of a classify request outside the cache when PROVIDER is mock
MockStep(t) ==
    \/ ClassifyAfterGet(t)
    \/ ProviderReturns(t, MockRaw(text[t]))
    \/ ClassifyRespond(t)

\* no cache operation is under way
Quiet == \A u \in Tasks : pc[u] \in {"idle", "cl_call", "done"}

\* The cache used directly under the event loop: coroutines calling get and
\* set with any ttl.  Taking a free asyncio.Lock does not suspend and the
\* bodies of get and set contain no await, so a call that has started runs
\* to its return before the loop runs any other coroutine.
NextStore ==
    \/ Tick
    \/ ClockBack
    \/ \E t \in Tasks, k \in Keys : Quiet /\ StartGet(t, k)
    \/ \E t \in Tasks, k \in Keys, c \in Contents, tt \in TTLs :
          Quiet /\ StartSet(t, k, c, tt)
    \/ \E t \in Tasks : Acquire(t)
    \/ \E t \in Tasks : CacheStep(t)

InitStore == Init /\ provider = "mock"

Spec == InitStore /\ [][NextStore]_vars

\* The cache used from preemptively scheduled callers: a task may be
\* suspended between any two steps, also inside the critical section.
NextConc ==
    \/ Tick
    \/ \E t \in Tasks, k \in Keys : StartGet(t, k)
    \/ \E t \in Tasks, k \in Keys, c \in Contents :
          StartSet(t, k, c, CACHE_TTL)
    \/ \E t \in Tasks : Acquire(t)
    \/ \E t \in Tasks : CacheStep(t)

SpecConc == InitStore /\ [][NextConc]_vars

\* The application: NTasks classify requests, the only callers of get and
\* set in the program, arriving at any time and running concurrently, with
\* any PROVIDER.  Each task serves one request and all requests carry the
\* same text, so that they all meet on one key.
HotTexts == {"good"}

NextLive ==
    \/ Tick
    \/ \E t \in Tasks, x \in HotTexts : StartClassify(t, x)
    \/ \E t \in Tasks : Acquire(t)
    \/ \E t \in Tasks : CacheStep(t)
    \/ \E t \in Tasks : ClassifyStep(t)

\* everything a started request does by itself
TaskStep(t) == Acquire(t) \/ CacheStep(t) \/ ClassifyStep(t)

\* A started coroutine keeps being scheduled whenever it can run, and the
\* provider call ends (the mock sleeps 0.1 s, the HTTP client has a timeout).
\* Nothing is assumed about who gets the lock when several tasks wait.
Fairness == \A t \in Tasks : WF_vars(TaskStep(t))

SpecLive == Init /\ [][NextLive]_vars /\ Fairness

\* The application as deployed by default (PROVIDER = mock), with requests
\* for any of the texts and a store whose write can fail.  Each task serves
\* one request.
NextApp ==
    \/ Tick
    \/ \E t \in Tasks, x \in Texts : StartClassify(t, x)
    \/ \E t \in Tasks : Acquire(t)
    \/ \E t \in Tasks : CacheStep(t)
    \/ \E t \in Tasks : SetFails(t)
    \/ \E t \in Tasks : MockStep(t)

SpecApp == InitStore /\ [][NextApp]_vars

\* The application in front of the remote provider (PROVIDER = hf), whose
\* call may raise or return anything.  Each task serves one request.
InitRemote == Init /\ provider = "hf"

NextRemote ==
    \/ Tick
    \/ \E t \in Tasks, x \in Texts : StartClassify(t, x)
    \/ \E t \in Tasks : Acquire(t)
    \/ \E t \in Tasks : CacheStep(t)
    \/ \E t \in Tasks : ClassifyStep(t)

SpecRemote == InitRemote /\ [][NextRemote]_vars

\* make_key on its own: callers derive keys for texts of any spelling, at
\* any time, several at once.
KeyTexts == {"", "good", "bad", "hello", "Hello"}

NextKey ==
    \/ Tick
    \/ \E t \in Tasks, x \in KeyTexts : DeriveKey(t, x)
    \/ \E t \in Tasks : DropKey(t)

SpecKey == InitStore /\ [][NextKey]_vars

\* The cache used directly by callers that go on to change, in place, the
\* dicts they handed to set or were handed by get.
NextAlias ==
    \/ NextStore
    \/ \E o \in Objs : Mutate(o)

SpecAlias == InitStore /\ [][NextAlias]_vars

TypeOK ==
    /\ lock \in Tasks \cup {NoTask}
    /\ now \in 0..MaxTime
    /\ Len(heap) <= MaxObj
    /\ \A k \in Keys : store[k] # NoRec => store[k].value \in 1..Len(heap)

\* ---------------------------------------------------------------- properties
\* the step in which a get settles what it returns, reading the clock as `now`
GetReturns(t) == pc[t] \in {"get_lookup", "get_check"} /\ pc'[t] = "get_exit"

\* the expiry the last write of k asked for: time of the set + ttl
Due(k) == lastSet[k].due

\* C1  Miss-then-hit: a get of a key that was never set returns absent; after
\* set(k, v, ttl) with ttl > 0, a get(k) issued while the clock has stayed
\* strictly before set time + ttl, no set(k) in between, returns exactly v.
C1_MissThenHit ==
    [][\A t \in Tasks : GetReturns(t) =>
        /\ lastSet[key[t]] = NoSet => ret'[t] = None
        /\ (/\ lastSet[key[t]] # NoSet
            /\ lastSet[key[t]].positive
            /\ ~lapsed[key[t]]) => ret'[t] = lastSet[key[t]].obj
        /\ t \notin raised']_vars

\* a get has just returned the value of a record written with ttl > 0 whose
\* expiry the clock has not reached
C1_Witness ==
    \E t \in Tasks :
        /\ pc[t] = "get_exit" /\ op[t] = "get"
        /\ lastSet[key[t]] # NoSet
        /\ lastSet[key[t]].positive
        /\ ~lapsed[key[t]]
        /\ now < Due(key[t])
        /\ ret[t] = lastSet[key[t]].obj

\* C2  Lazy eviction: a get(k) whose clock reading is past set time + ttl of
\* the last set(k) and that finds the record still in the mapping returns
\* absent and removes k, so the mapping holds exactly one key fewer.
C2_LazyEviction ==
    [][\A t \in Tasks :
        (/\ GetReturns(t)
         /\ store[key[t]] # NoRec
         /\ lastSet[key[t]] # NoSet
         /\ now > Due(key[t])) =>
            /\ ret'[t] = None
            /\ store'[key[t]] = NoRec
            /\ NumKeys(store') = NumKeys(store) - 1]_vars

\* a get has just evicted the expired record of its key; the other key stays
C2_Witness ==
    \E t \in Tasks :
        /\ pc[t] = "get_exit"
        /\ rec[t] # NoRec
        /\ ret[t] = None
        /\ store[key[t]] = NoRec
        /\ NumKeys(store) = 1

C5_Overwrite ==
    [][\A t \in Tasks :
        (/\ GetReturns(t)
         /\ lastSet[key[t]] # NoSet
         /\ lastSet[key[t]].prev # NoPrev
         /\ ~lapsed[key[t]]) =>
            /\ ret'[t] = lastSet[key[t]].obj
            /\ ret'[t] # lastSet[key[t]].prev.value]_vars

\* a get has just returned the second value written over a first one
C5_Witness ==
    \E t \in Tasks :
        /\ pc[t] = "get_exit"
        /\ lastSet[key[t]] # NoSet
        /\ lastSet[key[t]].prev # NoPrev
        /\ ret[t] = lastSet[key[t]].obj

\* C6  set replaces the whole record: a record in the mapping carries the
\* value of the last set(k) and expires_at = time of that set + its ttl,
\* whatever record was there before; when the replaced record had the later
\* expiry, a get past the newer expiry still returns absent, and when it had
\* the earlier one, a get up to the newer expiry still returns the value.
C6_WholeRecord ==
    /\ [](\A k \in Keys : store[k] # NoRec =>
            /\ lastSet[k] # NoSet
            /\ store[k].value = lastSet[k].obj
            /\ store[k].expires_at = Due(k))
    /\ [][\A t \in Tasks :
            (/\ GetReturns(t)
             /\ store[key[t]] # NoRec
             /\ lastSet[key[t]] # NoSet
             /\ lastSet[key[t]].prev # NoPrev) =>
                /\ (lastSet[key[t]].prev.longer /\ Due(key[t]) < now)
                      => ret'[t] = None
                /\ (lastSet[key[t]].prev.shorter /\ Due(key[t]) >= now)
                      => ret'[t] = lastSet[key[t]].obj]_vars

\* a record written over one that would have lived longer
C6_Witness ==
    \E k \in Keys :
        /\ store[k] # NoRec
        /\ lastSet[k] # NoSet
        /\ lastSet[k].prev # NoPrev
        /\ lastSet[k].prev.longer
        /\ lastSet[k].prev.value # store[k].value

\* C7  Isolation: whatever a caller does to the dict it got from get(k) or
\* gave to set, a later get(k) returns the value with the contents it had
\* when it was stored.
C7_Isolation ==
    [][\A t \in Tasks :
        (GetReturns(t) /\ ret'[t] # None /\ lastSet[key[t]] # NoSet) =>
            heap[ret'[t]] = lastSet[key[t]].content]_vars

\* C8  Mutual exclusion and linearizability: at most one task is inside the
\* critical section and it is the lock holder; the record a get looked up is
\* still the one in the mapping when it checks expiry; the mapping is at all
\* times the one a sequential cache running the operations in the order of
\* their critical sections would hold, and every get returns what that
\* sequential cache returns.
C8_Linearizable ==
    /\ [](/\ Cardinality({t \in Tasks : pc[t] \in InCS}) <= 1
          /\ \A t \in Tasks : pc[t] \in InCS => lock = t
          /\ \A t \in Tasks : pc[t] = "get_check" => rec[t] = store[key[t]]
          /\ store = lin)
    /\ [][\A t \in Tasks : GetReturns(t) =>
            /\ ret'[t] = SeqGetRet(lin, key[t], now)
            /\ t \notin raised']_vars

\* a get is about to evict inside the critical section while a set of the
\* same key waits for the lock
C8_Witness ==
    \E t \in Tasks, u \in Tasks :
        /\ pc[t] = "get_check"
        /\ rec[t] # NoRec
        /\ rec[t].expires_at < now
        /\ pc[u] = "set_acq"
        /\ key[u] = key[t]

\* C9  Concurrent same-key writes: once no set(k) is under way, a get(k)
\* before expiry returns the value of the set that took the lock last; value
\* and expires_at of the record both come from that one set; no operation
\* raises.
C9_LastWriterWins ==
    /\ [](raised = {})
    /\ [][\A t \in Tasks :
            (/\ GetReturns(t)
             /\ ~SetUnderWay(key[t])
             /\ lastSet[key[t]] # NoSet
             /\ now <= Due(key[t])
             /\ ~lapsed[key[t]]) =>
                /\ ret'[t] = lastAcq[key[t]]
                /\ lastSet[key[t]].obj = lastAcq[key[t]]
                /\ store[key[t]] = Record(lastAcq[key[t]], Due(key[t]))]_vars

\* a get has just returned the winner of two overlapping sets of its key
C9_Witness ==
    \E t \in Tasks :
        /\ pc[t] = "get_exit"
        /\ ~SetUnderWay(key[t])
        /\ raced[key[t]]
        /\ lastSet[key[t]] # NoSet
        /\ lastSet[key[t]].prev # NoPrev
        /\ ret[t] # None
        /\ ret[t] = lastAcq[key[t]]

\* C10  Store operations complete: the lock is held only by a task inside
\* get or set, never across the provider call or by a task that has left
\* the store, and under fair scheduling every task waiting for or holding
\* the lock gets through its operation.
InStore(t) == pc[t] \in InCS \cup {"get_acq", "set_acq"}

C10_StoreOpsComplete ==
    /\ [](\A t \in Tasks : lock = t => pc[t] \in InCS)
    /\ \A t \in Tasks : InStore(t) ~> ~InStore(t)

\* a request that missed and called the provider waits for the lock to write
\* its result while another task is inside the critical section
C10_Witness ==
    \E t \in Tasks, u \in Tasks :
        /\ pc[t] = "set_acq"
        /\ lock = u
        /\ pc[u] \in InCS

\* C11  A cache-write failure never fails the request: a classify request
\* whose cache.set raised, after the provider returned a valid result, ends
\* with a 200 response carrying that result and from_cache = false.
C11_CacheWriteFailureTolerated ==
    \A t \in Tasks :
        (pc[t] = "done" /\ t \in raised /\ val[t] # None) =>
            /\ resp[t].status = 200
            /\ resp[t].from_cache = FALSE
            /\ resp[t].labels = heap[val[t]].labels
            /\ resp[t].labels = call_mock(text[t])
            /\ resp[t].provider = provider

\* a request has answered although its cache write raised and left no record
C11_Witness ==
    \E t \in Tasks :
        /\ pc[t] = "done"
        /\ t \in raised
        /\ val[t] # None
        /\ resp[t].status = 200
        /\ store[key[t]] = NoRec

\* C12  No stampede suppression: a classify request whose get returned
\* absent goes on to invoke the provider whatever the other requests are
\* doing, also while another request for the same key is at the provider;
\* so two concurrent requests for one text can both miss, both call the
\* provider and both write the key within one TTL window (C12_Witness).
C12_NoStampedeSuppression ==
    [][\A t \in Tasks :
          (/\ pc[t] = "get_ret"
           /\ pc'[t] # "get_ret"
           /\ ret[t] = None
           /\ t \notin raised) =>
              /\ pc'[t] = "cl_call"
              /\ calls'[t] = calls[t] + 1]_vars

\* two requests for one text have both missed and called the provider, their
\* writes of the key overlapped and both are written, all within the first
\* CACHE_TTL seconds
C12_Witness ==
    \E t \in Tasks, u \in Tasks :
        /\ t # u
        /\ text[t] = text[u]
        /\ pc[t] = "done" /\ pc[u] = "done"
        /\ resp[t].status = 200 /\ resp[u].status = 200
        /\ ~resp[t].from_cache /\ ~resp[u].from_cache
        /\ calls[t] = 1 /\ calls[u] = 1
        /\ raced[key[t]]
        /\ lastSet[key[t]] # NoSet
        /\ lastSet[key[t]].prev # NoPrev
        /\ now < CACHE_TTL

\* C13  With the mock provider every classify request ends, and ends with a
\* 200 response holding a non-empty list of labels and a boolean from_cache,
\* whatever the cache holds for its key (nothing, a live record, an expired
\* record) and however the requests interleave.
C13_MockAlwaysSucceeds ==
    /\ [](provider = "mock" =>
            \A t \in Tasks : pc[t] = "done" =>
                /\ resp[t].status = 200
                /\ resp[t].labels # <<>>
                /\ resp[t].from_cache \in BOOLEAN)
    /\ \A t \in Tasks : (provider = "mock" /\ pc[t] # "idle") ~> pc[t] = "done"

\* with the mock provider a request that found an expired record has
\* answered 200 from the provider
C13_Witness ==
    /\ provider = "mock"
    /\ \E t \in Tasks :
          /\ pc[t] = "done"
          /\ rec[t] # NoRec
          /\ ret[t] = None
          /\ resp[t].status = 200
          /\ ~resp[t].from_cache

\* C14  Key derivation depends on the text alone: keys derived for the same
\* text, at whatever moments, are equal; keys derived for distinct texts
\* ("hello" and "Hello" among them) are distinct; and every derived key is
\* the prefix "classify:" followed by 64 more characters.
KeyPrefix == "classify:"

C15_Frame ==
    [][/\ \A k \in Keys :
            store'[k] # store[k] =>
                \E t \in Tasks :
                    /\ key[t] = k
                    /\ \/ pc[t] = "set_write" /\ pc'[t] = "set_exit"
                       \/ /\ pc[t] = "get_check" /\ pc'[t] = "get_exit"
                          /\ store[k] # NoRec
                          /\ store[k].expires_at < now
                          /\ store'[k] = NoRec
                          /\ ret'[t] = None
       /\ \A t \in Tasks :
            (GetReturns(t) /\ (ret'[t] # None \/ store[key[t]] = NoRec)) =>
                store' = store]_vars

\* a get has just deleted the expired record of its key while the expired
\* record of the other key is still in the mapping
C15_Witness ==
    \E t \in Tasks, j \in Keys :
        /\ pc[t] = "get_exit"
        /\ op[t] = "get"
        /\ rec[t] # NoRec
        /\ ret[t] = None
        /\ store[key[t]] = NoRec
        /\ j # key[t]
        /\ store[j] # NoRec
        /\ store[j].expires_at < now

\* C16  Orchestration order in classify: the provider is invoked only by a
\* request whose cache.get returned absent, and once per request; a request
\* whose get returned a record answers from_cache = true with the labels and
\* provider of that record, without a provider call and without a cache
\* write; a from_cache = false response comes from a request that made
\* exactly one provider call.
InSet(t) == pc[t] \in {"set_acq", "set_write", "set_exit", "set_ret"}

C16_OrchestrationOrder ==
    /\ [](\A t \in Tasks :
            /\ (pc[t] = "cl_call" \/ InSet(t)) => (ret[t] = None /\ calls[t] = 1)
            /\ (pc[t] = "done" /\ resp[t].status = 200) =>
                  IF resp[t].from_cache
                  THEN /\ ret[t] # None
                       /\ calls[t] = 0
                       /\ val[t] = None
                       /\ resp[t].labels = heap[ret[t]].labels
                       /\ resp[t].provider = heap[ret[t]].provider
                  ELSE /\ ret[t] = None
                       /\ calls[t] = 1)
    /\ [][\A t \in Tasks :
            /\ calls'[t] > calls[t] =>
                  (pc[t] = "get_ret" /\ ret[t] = None /\ pc'[t] = "cl_call")
            /\ (pc[t] = "get_ret" /\ pc'[t] # "get_ret" /\ ret[t] # None) =>
                  (pc'[t] = "done" /\ resp'[t].status = 200
                   /\ resp'[t].from_cache /\ store' = store)]_vars

\* one request has missed, called the provider and answered, and a later one
\* for the same text has answered from the cache without calling it
C16_Witness ==
    \E t \in Tasks, u \in Tasks :
        /\ pc[t] = "done"
        /\ resp[t].status = 200
        /\ resp[t].from_cache
        /\ calls[t] = 0
        /\ pc[u] = "done"
        /\ text[u] = text[t]
        /\ resp[u].status = 200
        /\ ~resp[u].from_cache
        /\ calls[u] = 1

\* C17  Failures are never cached: when the provider call raises or
\* normalize yields no labels, the request ends with a 502 or 500 response
\* in a step that leaves the mapping as it is, and such a request never
\* builds a result or calls set; every value classify hands to set, and so
\* every value in the mapping, has a non-empty labels list and the provider.
C17_FailuresNeverCached ==
    /\ [](\A k \in Keys : store[k] # NoRec =>
            /\ heap[store[k].value].labels # <<>>
            /\ heap[store[k].value].provider = provider)
    /\ [](\A t \in Tasks : (pc[t] = "done" /\ resp[t].status # 200) =>
            /\ resp[t].status \in {500, 502}
            /\ val[t] = None)
    /\ [][\A t \in Tasks :
            /\ (pc[t] = "cl_call" /\ pc'[t] = "done") =>
                  /\ resp'[t].status \in {500, 502}
                  /\ store' = store
                  /\ heap' = heap
            /\ (pc[t] = "cl_call" /\ pc'[t] = "set_acq") =>
                  /\ heap'[val'[t]].labels # <<>>
                  /\ heap'[val'[t]].provider = provider]_vars

\* a request has ended in 502 and one in 500, and nothing is in the mapping
C17_Witness ==
    \E t \in Tasks, u \in Tasks :
        /\ pc[t] = "done" /\ resp[t].status = 502 /\ calls[t] = 1
        /\ pc[u] = "done" /\ resp[u].status = 500 /\ calls[u] = 1
        /\ \A k \in Keys : store[k] = NoRec

\* C18  Expiry is permanent until rewritten: once a get of k has returned
\* absent because it found the record expired, every later get of k returns
\* absent as long as no set of k has written, also when the clock has been
\* set back before the expiry in the meantime.
C18_ExpiryPermanent ==
    [][\A t \in Tasks :
          (GetReturns(t) /\ gone[key[t]]) =>
              /\ ret'[t] = None
              /\ t \notin raised']_vars

\* a later get of a key whose record was found expired has found nothing and
\* returned absent, with the clock back at or before the expiry of the last
\* write of the key
C18_Witness ==
    \E t \in Tasks :
        /\ pc[t] = "get_exit"
        /\ op[t] = "get"
        /\ gone[key[t]]
        /\ rec[t] = NoRec
        /\ ret[t] = None
        /\ lastSet[key[t]] # NoSet
        /\ lastSet[key[t]].positive
        /\ now <= Due(key[t])

\* C19  Cache hits are faithful: the record a classify request gets from the
\* cache is the one of the most recent write of its key, made by a request
\* for the same text with the result it obtained from the provider and
\* written at a clock reading no more than CACHE_TTL before the reading of
\* this get; the from_cache = true response carries exactly the labels and
\* provider of that result.
C19_HitsFaithful ==
    /\ [][/\ \A t \in Tasks :
               (GetReturns(t) /\ op[t] = "classify" /\ ret'[t] # None) =>
                   /\ lastSet[key[t]] # NoSet
                   /\ ret'[t] = lastSet[key[t]].obj
                   /\ lastSet[key[t]].text = text[t]
                   /\ heap[ret'[t]] = lastSet[key[t]].content
                   /\ now <= Due(key[t])
          /\ \A k \in Keys :
               lastSet'[k] # lastSet[k] =>
                   /\ lastSet'[k].due = now + CACHE_TTL
                   /\ lastSet'[k].content =
                         Result(call_mock(lastSet'[k].text), provider)]_vars
    /\ [](\A t \in Tasks :
            (pc[t] = "done" /\ resp[t].status = 200 /\ resp[t].from_cache) =>
                /\ resp[t].labels = heap[ret[t]].labels
                /\ resp[t].provider = heap[ret[t]].provider
                /\ resp[t].labels = call_mock(text[t])
                /\ resp[t].provider = provider)

\* a request has answered from the cache with the result of the last write
\* of its key, at the last clock reading the record is served at
C19_Witness ==
    \E t \in Tasks :
        /\ pc[t] = "done"
        /\ resp[t].status = 200
        /\ resp[t].from_cache
        /\ lastSet[key[t]] # NoSet
        /\ ret[t] = lastSet[key[t]].obj
        /\ resp[t].labels = lastSet[key[t]].content.labels
        /\ rec[t].expires_at = now
        /\ now = CACHE_TTL

====
